---- MODULE Spec2Model ----
(***************************************************************************)
(* Model of samples/DocumentManagement/Program.py: the DocumentManagement  *)
(* sample (Initialize, ReadDocument, ReadDocuments, QueryDocuments,        *)
(* ReplaceDocument), run_sample and the __main__ guard, together with the  *)
(* document service the client handle talks to.                            *)
(*                                                                         *)
(* Strings that the program builds by concatenation and the service reads  *)
(* back (the query text) are sequences of one-character strings.  A        *)
(* document id n stands for the string 'SalesOrder' + n.                   *)
(***************************************************************************)
EXTENDS Integers, Sequences, FiniteSets, TLC

VARIABLES entry, pc, initCalls,
          dbCount, collCount, docs, docs0, clock,
          clientOpen, calls, svcErr, exc, caught, doneCount,
          arg, querylist, order, order0, result,
          documentlist, pages, printed

vars == <<entry, pc, initCalls, dbCount, collCount, docs, docs0, clock,
          clientOpen, calls, svcErr, exc, caught, doneCount,
          arg, querylist, order, order0, result,
          documentlist, pages, printed>>

----------------------------------------------------------------------------
(* Bounds of the model. *)

\* Most documents in the collection, except for the ReadDocuments entry.
MaxDocs == 2
\* Document ids range over 1..MaxId.
MaxId == 2
\* Most documents in the collection for the ReadDocuments entry.
MaxReadDocs == 25
\* The clock runs over 0..MaxClock ticks.
MaxClock == 3
\* Most documents that expire during one run.
MaxExpired == 1
\* Clock ticks in one second: strftime('%c') keeps whole seconds only.
TicksPerSecond == 2

(* Program constants. *)

\* {'maxItemCount':10}
MaxItemCount == 10
\* if e.status_code == 409
Conflict == 409

----------------------------------------------------------------------------
(* Strings. *)

Account1 == <<"A", "c", "c", "o", "u", "n", "t", "1">>
Account2 == <<"A", "c", "c", "o", "u", "n", "t", "2">>
\* O'B : an account number holding a quote character
QuoteAccount == <<"O", "'", "B">>
\* x' OR 'x'='x
OrAccount == <<"x", "'", " ", "O", "R", " ", "'", "x", "'", "=", "'", "x">>

AccountNumbers == {Account1, Account2, QuoteAccount, OrAccount}
PlainAccountNumbers == {Account1, Account2}

SalesOrder1 == 1

SelectHead == "SELECT * FROM root r WHERE r.account_number="

\* 'SELECT * FROM root r WHERE r.account_number=\'' + account_number + '\''
QueryText(account_number) ==
    <<SelectHead, "'">> \o account_number \o <<"'">>

\* collection_link + '/docs/' + doc_id
DocumentLink(doc_id) == [collection |-> "collection_link", doc |-> doc_id]

\* datetime.datetime.now().strftime('%c')
StrfTime(now) == now \div TicksPerSecond

Seconds == 0..(MaxClock \div TicksPerSecond)

----------------------------------------------------------------------------
(* Records. *)

NoRecord == [id |-> 0, account_number |-> <<>>, shipped_date |-> 0,
             purchase_order_number |-> "none"]

SalesOrder(id, acct, shipped) ==
    [id |-> id, account_number |-> acct, shipped_date |-> shipped,
     purchase_order_number |-> "PO18009186470"]

Ids == 1..MaxId

RecordsOver(accts, dates) ==
    {SalesOrder(i, a, s) : i \in Ids, a \in accts, s \in dates}

IdSet(store) == {store[i].id : i \in 1..Len(store)}

\* Stores hold at most one document per id.
StoresOver(recs) ==
    UNION {{s \in [1..n -> recs] :
              \A i, j \in 1..n : i # j => s[i].id # s[j].id} : n \in 0..MaxDocs}

\* The collection the ReadDocuments entry reads: n documents, ids 1..n.
NumberedStore(n) ==
    [i \in 1..n |-> SalesOrder(i, IF i % 2 = 1 THEN Account1 ELSE Account2, 0)]

----------------------------------------------------------------------------
(* Exceptions. *)

NoExc == [type |-> "None", status |-> 0]
HTTPFailure(status) == [type |-> "HTTPFailure", status |-> status]
IndexError == [type |-> "IndexError", status |-> 0]
AttributeError == [type |-> "AttributeError", status |-> 0]
\* An exception of the client that is no DocumentDBError (a transport error).
OtherError == [type |-> "OtherError", status |-> 0]

\* HTTPFailure is the DocumentDBError that carries a status code.
IsDocumentDBError(e) == e.type = "HTTPFailure"

\* Failures the service may answer any request with, whatever the store holds.
Faults == {HTTPFailure(429), HTTPFailure(503), OtherError}
NoFault == NoExc

NoSvcErr == [op |-> "none", err |-> NoExc, injected |-> FALSE]
SvcErr(op, e, f) == [op |-> op, err |-> e, injected |-> f # NoFault]

----------------------------------------------------------------------------
(* The document service behind the client handle. *)

Ok == NoExc

Min(a, b) == IF a < b THEN a ELSE b

\* createDatabase(id): success | conflict(409) | other error
CreateDatabaseResponse(db, f) ==
    IF f # NoFault THEN f
    ELSE IF db > 0 THEN HTTPFailure(409)
    ELSE Ok

\* createCollection(databaseRef, definition): success | conflict(409) | other
CreateCollectionResponse(db, coll, f) ==
    IF f # NoFault THEN f
    ELSE IF db = 0 THEN HTTPFailure(404)
    ELSE IF coll > 0 THEN HTTPFailure(409)
    ELSE Ok

\* Position in the store of the document a link names, 0 when there is none.
IndexOfId(store, id) ==
    IF \E i \in 1..Len(store) : store[i].id = id
    THEN CHOOSE i \in 1..Len(store) : store[i].id = id
    ELSE 0

\* readDocument(documentRef, {partitionKey}): record | error
ReadDocumentResponse(store, coll, link, options, f) ==
    LET i == IndexOfId(store, link.doc) IN
    IF f # NoFault THEN f
    ELSE IF coll = 0 \/ i = 0 THEN HTTPFailure(404)
    ELSE IF store[i].account_number # options.partitionKey THEN HTTPFailure(404)
    ELSE Ok

\* One page of readDocuments: the documents after position `from`, at most
\* maxItemCount of them.
Page(store, from, maxItemCount) ==
    SubSeq(store, from + 1, Min(from + maxItemCount, Len(store)))

\* The pages a full pass over the collection is served in.
RECURSIVE PagesFrom(_, _, _)
PagesFrom(store, from, maxItemCount) ==
    IF from >= Len(store) THEN <<>>
    ELSE <<Page(store, from, maxItemCount)>>
         \o PagesFrom(store, from + maxItemCount, maxItemCount)

RECURSIVE SkipSpaces(_)
SkipSpaces(s) ==
    IF s # <<>> /\ s[1] = " " THEN SkipSpaces(Tail(s)) ELSE s

\* Position of the first quote character of s at or after i, 0 when none.
RECURSIVE QuoteFrom(_, _)
QuoteFrom(s, i) ==
    IF i > Len(s) THEN 0
    ELSE IF s[i] = "'" THEN i
    ELSE QuoteFrom(s, i + 1)

BadLiteral == [ok |-> FALSE, lit |-> <<>>, rest |-> <<>>]

\* A string literal at the head of s: from its opening quote to the next quote.
ReadLiteral(s) ==
    IF s = <<>> \/ s[1] # "'" THEN BadLiteral
    ELSE LET j == QuoteFrom(s, 2) IN
         IF j = 0 THEN BadLiteral
         ELSE [ok |-> TRUE, lit |-> SubSeq(s, 2, j - 1),
               rest |-> SubSeq(s, j + 1, Len(s))]

BadQuery == [ok |-> FALSE, lit |-> <<>>, always |-> FALSE]

\* The condition after r.account_number= : a literal, or a literal followed
\* by OR <literal> = <literal>.
ParseCondition(s) ==
    LET l1 == ReadLiteral(s)
        r1 == SkipSpaces(l1.rest)
    IN  IF ~l1.ok THEN BadQuery
        ELSE IF r1 = <<>> THEN [ok |-> TRUE, lit |-> l1.lit, always |-> FALSE]
        ELSE IF Len(r1) < 2 \/ r1[1] # "O" \/ r1[2] # "R" THEN BadQuery
        ELSE LET l2 == ReadLiteral(SkipSpaces(SubSeq(r1, 3, Len(r1))))
                 r2 == SkipSpaces(l2.rest)
             IN  IF ~l2.ok \/ r2 = <<>> \/ r2[1] # "=" THEN BadQuery
                 ELSE LET l3 == ReadLiteral(SkipSpaces(Tail(r2))) IN
                      IF ~l3.ok \/ SkipSpaces(l3.rest) # <<>> THEN BadQuery
                      ELSE [ok |-> TRUE, lit |-> l1.lit,
                            always |-> (l2.lit = l3.lit)]

ParseQuery(text) ==
    IF Len(text) < 1 \/ text[1] # SelectHead THEN BadQuery
    ELSE ParseCondition(Tail(text))

\* The documents of the store a parsed condition selects, in store order.
RECURSIVE Select(_, _)
Select(store, cond) ==
    IF store = <<>> THEN <<>>
    ELSE (IF store[1].account_number = cond.lit \/ cond.always
          THEN <<store[1]>> ELSE <<>>) \o Select(Tail(store), cond)

\* queryDocuments(collectionRef, {query string}): matching records | error
QueryDocumentsResponse(coll, text, f) ==
    IF f # NoFault THEN f
    ELSE IF coll = 0 THEN HTTPFailure(404)
    ELSE IF ~ParseQuery(text).ok THEN HTTPFailure(400)
    ELSE Ok

QueryDocumentsResult(store, text) == Select(store, ParseQuery(text))

\* replaceDocument(documentRef, record): updated record | error
ReplaceDocumentResponse(store, coll, link, body, f) ==
    LET i == IndexOfId(store, link.doc) IN
    IF f # NoFault THEN f
    ELSE IF coll = 0 \/ i = 0 THEN HTTPFailure(404)
    ELSE IF body.id # link.doc /\ IndexOfId(store, body.id) # 0
         THEN HTTPFailure(409)
    ELSE Ok

ReplaceDocumentStore(store, link, body) ==
    [store EXCEPT ![IndexOfId(store, link.doc)] = body]

RemoveAt(store, i) ==
    SubSeq(store, 1, i - 1) \o SubSeq(store, i + 1, Len(store))

----------------------------------------------------------------------------
(* The program. *)

Terminal == {"exited", "crashed", "returned", "raised"}

\* The except clause with the conflict test lost: every error is raised again.
InitializeHandlerRaisesConflict(e) ==
    IF ~IsDocumentDBError(e) THEN e ELSE HTTPFailure(e.status)

\* The except clause raising a failure that does not carry the status on.
InitializeHandlerLosesStatus(e) ==
    IF ~IsDocumentDBError(e) THEN e
    ELSE IF e.status = Conflict THEN NoExc
    ELSE HTTPFailure(500)

\* What the except clause of a setup call does with the error e it is given:
\* the exception that leaves Initialize, NoExc when the error is swallowed.
InitializeHandler(e) ==
    IF ~IsDocumentDBError(e) THEN e
    ELSE IF e.status = Conflict THEN NoExc
    ELSE HTTPFailure(e.status)

\* Initialize(client) on a service holding db databases and coll collections
\* of the configured ids, the service answering the two setup calls with the
\* faults f1 and f2 (NoFault: as the store decides).
InitializeRun(db, coll, f1, f2) ==
    LET r1  == CreateDatabaseResponse(db, f1)
        db1 == IF r1 = Ok THEN db + 1 ELSE db
        x1  == IF r1 = Ok THEN NoExc ELSE InitializeHandler(r1)
        e1  == IF r1 = Ok THEN NoSvcErr ELSE SvcErr("CreateDatabase", r1, f1)
        r2  == CreateCollectionResponse(db1, coll, f2)
        x2  == IF r2 = Ok THEN NoExc ELSE InitializeHandler(r2)
    IN  IF x1 # NoExc
        THEN [db |-> db1, coll |-> coll, calls |-> <<"CreateDatabase">>,
              raised |-> x1, svcErr |-> e1]
        ELSE [db |-> db1, coll |-> IF r2 = Ok THEN coll + 1 ELSE coll,
              calls |-> <<"CreateDatabase", "CreateCollection">>,
              raised |-> x2,
              svcErr |-> IF r2 = Ok THEN e1
                         ELSE SvcErr("CreateCollection", r2, f2)]

RECURSIVE Flatten(_)
Flatten(ps) == IF ps = <<>> THEN <<>> ELSE Head(ps) \o Flatten(Tail(ps))

\* Only the first page of the result is taken.
ReadDocumentsFirstPage(store) == Page(store, 0, MaxItemCount)

\* list(client.ReadDocuments(collection_link, {'maxItemCount':10}))
ReadDocumentsList(store) == Flatten(PagesFrom(store, 0, MaxItemCount))

\* for doc in documentlist: print(doc.get('id'))
PrintedIds(list) == [i \in 1..Len(list) |-> list[i].id]

\* The shipped date is left as it was.
StampedOrderUnstamped(o, now) == o

\* A second field is overwritten with the shipped date.
StampedOrderClobbers(o, now) ==
    [o EXCEPT !.shipped_date = StrfTime(now), !.purchase_order_number = "none"]

\* order['shipped_date'] = datetime.datetime.now().strftime('%c')
StampedOrder(o, now) == [o EXCEPT !.shipped_date = StrfTime(now)]

\* IDisposable.__exit__: self = None
DisposableExit(open) == open

\* The outermost scope catching HTTPFailure only.
MainCatchesHTTPFailureOnly(e) == e.type = "HTTPFailure"

\* except Exception as e, at the outermost scope
MainCatches(e) ==
    e.type \in {"HTTPFailure", "IndexError", "AttributeError", "OtherError"}

\* Where control goes when a step of the try block returns.
ReturnTo(next) == IF entry = "__main__" THEN next ELSE "returned"

\* A failed step sends the run back to its first step.
RaiseToRetry(e) == IF entry # "__main__" THEN "raised" ELSE "Initialize"

\* Where control goes when a step raises e: the except clause of run_sample
\* takes an HTTPFailure, anything else goes through the finally clause.
RaiseTo(e) ==
    IF entry # "__main__" THEN "raised"
    ELSE IF e.type = "HTTPFailure" THEN "except"
    ELSE "finally"

StoreStates(recs) ==
    {<<0, 0, <<>>>>, <<1, 0, <<>>>>}
    \cup {<<1, 1, s>> : s \in StoresOver(recs)}

InitCommon ==
    /\ initCalls = 0
    /\ docs0 = docs
    /\ clientOpen = FALSE
    /\ calls = <<>>
    /\ svcErr = NoSvcErr
    /\ exc = NoExc
    /\ caught = <<>>
    /\ doneCount = 0
    /\ querylist = <<>>
    /\ order0 = NoRecord
    /\ result = NoRecord
    /\ documentlist = <<>>
    /\ pages = <<>>
    /\ printed = <<>>

InitMain ==
    /\ entry = "__main__"
    /\ pc = "main"
    /\ \E st \in StoreStates(RecordsOver(PlainAccountNumbers, {0})) :
          dbCount = st[1] /\ collCount = st[2] /\ docs = st[3]
    /\ clock = 0
    /\ arg = Account1
    /\ order = NoRecord

InitInitialize ==
    /\ entry = "Initialize"
    /\ pc = "Initialize"
    /\ \E st \in StoreStates(RecordsOver(PlainAccountNumbers, {0})) :
          dbCount = st[1] /\ collCount = st[2] /\ docs = st[3]
    /\ clock = 0
    /\ arg = <<>>
    /\ order = NoRecord

InitReadDocuments ==
    /\ entry = "ReadDocuments"
    /\ pc = "ReadDocuments"
    /\ dbCount = 1
    /\ collCount = 1
    /\ \E n \in 0..MaxReadDocs : docs = NumberedStore(n)
    /\ clock = 0
    /\ arg = <<>>
    /\ order = NoRecord

InitQueryDocuments ==
    /\ entry = "QueryDocuments"
    /\ pc = "QueryDocuments"
    /\ \E st \in StoreStates(RecordsOver(AccountNumbers, {0})) :
          dbCount = st[1] /\ collCount = st[2] /\ docs = st[3]
    /\ clock = 0
    /\ arg \in AccountNumbers
    /\ order = NoRecord

InitReplaceDocument ==
    /\ entry = "ReplaceDocument"
    /\ pc = "ReplaceDocument"
    /\ \E st \in StoreStates(RecordsOver(PlainAccountNumbers, Seconds)) :
          dbCount = st[1] /\ collCount = st[2] /\ docs = st[3]
    /\ clock = 0
    /\ arg = <<>>
    /\ order \in RecordsOver(PlainAccountNumbers, Seconds)

Init ==
    /\ \/ InitMain
       \/ InitInitialize
       \/ InitReadDocuments
       \/ InitQueryDocuments
       \/ InitReplaceDocument
    /\ InitCommon

\* run_sample(): with IDisposable(DocumentClient(...)) as client
RunSample ==
    /\ pc = "main"
    /\ clientOpen' = TRUE
    /\ pc' = "Initialize"
    /\ UNCHANGED <<entry, initCalls, dbCount, collCount, docs, docs0, clock,
                   calls, svcErr, exc, caught, doneCount, arg, querylist,
                   order, order0, result, documentlist, pages, printed>>

\* DocumentManagement.Initialize(client); the Initialize entry calls it twice.
Initialize ==
    /\ pc = "Initialize"
    /\ \E f1, f2 \in Faults \cup {NoFault} :
          LET r == InitializeRun(dbCount, collCount, f1, f2) IN
          /\ dbCount' = r.db
          /\ collCount' = r.coll
          /\ calls' = calls \o r.calls
          /\ svcErr' = r.svcErr
          /\ exc' = r.raised
          /\ initCalls' = initCalls + 1
          /\ pc' = IF r.raised # NoExc THEN RaiseTo(r.raised)
                   ELSE IF entry = "Initialize" /\ initCalls + 1 < 2
                        THEN "Initialize"
                   ELSE ReturnTo("ReadDocument")
    /\ UNCHANGED <<entry, docs, docs0, clock, clientOpen, caught, doneCount,
                   arg, querylist, order, order0, result, documentlist,
                   pages, printed>>

\* DocumentManagement.ReadDocument(client, 'SalesOrder1', 'Account1')
ReadDocument ==
    /\ pc = "ReadDocument"
    /\ \E f \in Faults \cup {NoFault} :
          LET r == ReadDocumentResponse(docs, collCount,
                       DocumentLink(SalesOrder1),
                       [partitionKey |-> Account1], f) IN
          /\ calls' = Append(calls, "ReadDocument")
          /\ svcErr' = IF r = Ok THEN svcErr ELSE SvcErr("ReadDocument", r, f)
          /\ exc' = r
          /\ pc' = IF r = Ok THEN ReturnTo("ReadDocuments") ELSE RaiseTo(r)
    /\ UNCHANGED <<entry, initCalls, dbCount, collCount, docs, docs0, clock,
                   clientOpen, caught, doneCount, arg, querylist, order,
                   order0, result, documentlist, pages, printed>>

\* DocumentManagement.ReadDocuments(client): the service may fail any of the
\* page requests the list() makes.
ReadDocuments ==
    /\ pc = "ReadDocuments"
    /\ \E f \in Faults \cup {NoFault} :
          LET served == PagesFrom(docs, 0, MaxItemCount)
              r == IF collCount = 0 THEN HTTPFailure(404) ELSE f
          IN
          /\ calls' = Append(calls, "ReadDocuments")
          /\ svcErr' = IF r = Ok THEN svcErr ELSE SvcErr("ReadDocuments", r, f)
          /\ exc' = r
          /\ IF r = Ok
             THEN /\ pages' = served
                  /\ documentlist' = ReadDocumentsList(docs)
                  /\ printed' = PrintedIds(documentlist')
                  /\ pc' = ReturnTo("QueryDocuments")
             ELSE /\ \E k \in 1..(IF served = <<>> THEN 1 ELSE Len(served)) :
                        pages' = SubSeq(served, 1, k - 1)
                  /\ UNCHANGED <<documentlist, printed>>
                  /\ pc' = RaiseTo(r)
    /\ UNCHANGED <<entry, initCalls, dbCount, collCount, docs, docs0, clock,
                   clientOpen, caught, doneCount, arg, querylist, order,
                   order0, result>>

\* DocumentManagement.QueryDocuments(client, account_number)
QueryDocuments ==
    /\ pc = "QueryDocuments"
    /\ \E f \in Faults \cup {NoFault} :
          LET text == QueryText(arg)
              r == QueryDocumentsResponse(collCount, text, f)
              list == IF r = Ok THEN QueryDocumentsResult(docs, text) ELSE <<>>
              x == IF r # Ok THEN r
                   ELSE IF list = <<>> THEN IndexError
                   ELSE NoExc
          IN
          /\ calls' = Append(calls, "QueryDocuments")
          /\ svcErr' = IF r = Ok THEN svcErr
                       ELSE SvcErr("QueryDocuments", r, f)
          /\ querylist' = list
          /\ exc' = x
          /\ order' = IF x = NoExc THEN list[1] ELSE order
          /\ pc' = IF x = NoExc THEN ReturnTo("ReplaceDocument") ELSE RaiseTo(x)
    /\ UNCHANGED <<entry, initCalls, dbCount, collCount, docs, docs0, clock,
                   clientOpen, caught, doneCount, arg, order0, result,
                   documentlist, pages, printed>>

\* DocumentManagement.ReplaceDocument(client, order)
ReplaceDocument ==
    /\ pc = "ReplaceDocument"
    /\ \E now \in clock..MaxClock, f \in Faults \cup {NoFault} :
          LET stamped == StampedOrder(order, now)
              link == DocumentLink(stamped.id)
              r == ReplaceDocumentResponse(docs, collCount, link, stamped, f)
          IN
          /\ clock' = now
          /\ order0' = order
          /\ order' = stamped
          /\ calls' = Append(calls, "ReplaceDocument")
          /\ svcErr' = IF r = Ok THEN svcErr
                       ELSE SvcErr("ReplaceDocument", r, f)
          /\ exc' = r
          /\ docs' = IF r = Ok THEN ReplaceDocumentStore(docs, link, stamped)
                     ELSE docs
          /\ result' = IF r = Ok THEN docs'[IndexOfId(docs', stamped.id)]
                       ELSE result
          /\ pc' = IF r = Ok THEN ReturnTo("finally") ELSE RaiseTo(r)
    /\ UNCHANGED <<entry, initCalls, dbCount, collCount, docs0, clientOpen,
                   caught, doneCount, arg, querylist, documentlist, pages,
                   printed>>

\* except errors.HTTPFailure as e: print(... e.message): the exception may
\* or may not carry a message attribute.
ExceptHTTPFailure ==
    /\ pc = "except"
    /\ \E hasMessage \in BOOLEAN :
          /\ caught' = Append(caught, [at |-> "run_sample", type |-> exc.type])
          /\ exc' = IF hasMessage THEN NoExc ELSE AttributeError
    /\ pc' = "finally"
    /\ UNCHANGED <<entry, initCalls, dbCount, collCount, docs, docs0, clock,
                   clientOpen, calls, svcErr, doneCount, arg, querylist,
                   order, order0, result, documentlist, pages, printed>>

\* finally: print("\nrun_sample done")
Finally ==
    /\ pc = "finally"
    /\ doneCount' = doneCount + 1
    /\ pc' = "__exit__"
    /\ UNCHANGED <<entry, initCalls, dbCount, collCount, docs, docs0, clock,
                   clientOpen, calls, svcErr, exc, caught, arg, querylist,
                   order, order0, result, documentlist, pages, printed>>

\* IDisposable.__exit__ at the end of the with statement; it returns None, so
\* an exception in flight goes on to the caller.
WithExit ==
    /\ pc = "__exit__"
    /\ clientOpen' = DisposableExit(clientOpen)
    /\ pc' = IF exc = NoExc THEN "exited" ELSE "main_except"
    /\ UNCHANGED <<entry, initCalls, dbCount, collCount, docs, docs0, clock,
                   calls, svcErr, exc, caught, doneCount, arg, querylist,
                   order, order0, result, documentlist, pages, printed>>

\* if __name__ == '__main__': try: run_sample() except Exception as e: print
MainExcept ==
    /\ pc = "main_except"
    /\ IF MainCatches(exc)
       THEN /\ caught' = Append(caught, [at |-> "__main__", type |-> exc.type])
            /\ exc' = NoExc
            /\ pc' = "exited"
       ELSE /\ pc' = "crashed"
            /\ UNCHANGED <<caught, exc>>
    /\ UNCHANGED <<entry, initCalls, dbCount, collCount, docs, docs0, clock,
                   clientOpen, calls, svcErr, doneCount, arg, querylist,
                   order, order0, result, documentlist, pages, printed>>

\* 'ttl' : 60 * 60 * 24 * 30 : the service drops a document whose time to
\* live has run out.
TtlExpire ==
    /\ entry = "__main__"
    /\ pc \notin Terminal
    /\ Len(docs0) - Len(docs) < MaxExpired
    /\ \E i \in 1..Len(docs) : docs' = RemoveAt(docs, i)
    /\ UNCHANGED <<entry, pc, initCalls, dbCount, collCount, docs0, clock,
                   clientOpen, calls, svcErr, exc, caught, doneCount, arg,
                   querylist, order, order0, result, documentlist, pages,
                   printed>>

Next ==
    \/ RunSample
    \/ Initialize
    \/ ReadDocument
    \/ ReadDocuments
    \/ QueryDocuments
    \/ ReplaceDocument
    \/ ExceptHTTPFailure
    \/ Finally
    \/ WithExit
    \/ MainExcept

Spec == Init /\ [][Next]_vars

\* The script run from the command line.
InitRun == InitMain /\ InitCommon

\* The run with documents expiring while it goes on; the script itself is
\* sequential and takes its next step whenever it has one.
TtlSpec == InitRun /\ [][Next \/ TtlExpire]_vars /\ WF_vars(Next)

----------------------------------------------------------------------------
(* Properties. *)

IsPrefix(s, t) == Len(s) <= Len(t) /\ SubSeq(t, 1, Len(s)) = s

\* The calls of run_sample on the client, in the order of its steps.
StepOrder == <<"CreateDatabase", "CreateCollection", "ReadDocument",
               "ReadDocuments", "QueryDocuments", "ReplaceDocument">>

AfterRunSample == {"main_except", "exited", "crashed"}

Matching(store, acct) == {i \in 1..Len(store) : store[i].account_number = acct}

Changed == {i \in 1..Min(Len(docs), Len(docs0)) : docs[i] # docs0[i]}

\* C1: Initialize called twice in a row, on a service whose only error is
\* the 409 of an existing database or collection, never raises, and leaves
\* exactly one database and one collection of the configured ids.
C1_InitializeIdempotent ==
    (entry = "Initialize" /\ ~svcErr.injected) =>
        /\ pc # "raised"
        /\ exc = NoExc
        /\ pc = "returned" =>
              initCalls = 2 /\ dbCount = 1 /\ collCount = 1 /\ docs = docs0

C1_Witness ==
    /\ entry = "Initialize"
    /\ pc = "returned"
    /\ initCalls = 2
    /\ svcErr = SvcErr("CreateCollection", HTTPFailure(409), NoFault)
    /\ calls = <<"CreateDatabase", "CreateCollection",
                 "CreateDatabase", "CreateCollection">>

\* C2: a setup call of Initialize failing with a status other than 409 makes
\* Initialize raise an HTTPFailure of that very status, and after a failed
\* CreateDatabase no CreateCollection is attempted.
C2_SetupErrorKeepsStatus ==
    (/\ entry = "Initialize"
     /\ svcErr.op \in {"CreateDatabase", "CreateCollection"}
     /\ IsDocumentDBError(svcErr.err)
     /\ svcErr.err.status # Conflict) =>
        /\ pc = "raised"
        /\ exc = HTTPFailure(svcErr.err.status)
        /\ calls[Len(calls)] = svcErr.op

C2_Witness ==
    /\ entry = "Initialize"
    /\ pc = "raised"
    /\ svcErr.op = "CreateDatabase"
    /\ exc = HTTPFailure(503)
    /\ initCalls = 2
    /\ calls = <<"CreateDatabase", "CreateCollection", "CreateDatabase">>

\* C3: QueryDocuments with an account number no record of the collection
\* has, the service answering without error, completes without raising and
\* reports no record.
C3_QueryNoMatchIsEmpty ==
    (/\ entry = "QueryDocuments"
     /\ pc \in Terminal
     /\ collCount = 1
     /\ svcErr = NoSvcErr
     /\ Matching(docs, arg) = {}) =>
        /\ pc = "returned"
        /\ exc = NoExc
        /\ order = NoRecord

\* C4: QueryDocuments on a store holding a record of the account number
\* asked for returns a record of the store with that account number, the
\* first of the service's result.
C4_QueryReturnsFirstMatch ==
    (/\ entry = "QueryDocuments"
     /\ pc \in Terminal
     /\ ~svcErr.injected
     /\ Matching(docs, arg) # {}) =>
        /\ pc = "returned"
        /\ order = querylist[1]
        /\ \E i \in 1..Len(docs) : docs[i] = order
        /\ order.account_number = arg

\* C5 as stated: the record ReplaceDocument gets back has a shipped_date
\* other than the one the input had, and the input's id.
C5_ShippedDateDiffers ==
    (entry = "ReplaceDocument" /\ pc = "returned") =>
        /\ result.shipped_date # order0.shipped_date
        /\ result.id = order0.id

\* C5 amended: the record ReplaceDocument gets back is the input with its
\* shipped_date set to the formatted current time; it has the input's id,
\* and its shipped_date differs from the input's exactly when the input's
\* was not that time already.
C5_ShippedDateIsNow ==
    (entry = "ReplaceDocument" /\ pc = "returned") =>
        /\ result = [order0 EXCEPT !.shipped_date = StrfTime(clock)]
        /\ result.id = order0.id
        /\ (result.shipped_date # order0.shipped_date)
              <=> (order0.shipped_date # StrfTime(clock))

C5_Witness ==
    /\ entry = "ReplaceDocument"
    /\ pc = "returned"
    /\ result.shipped_date # order0.shipped_date
    /\ result.id = order0.id

\* C6: once run_sample is over, however it ended, the client handle it
\* acquired has been released.
C6_ClientReleased ==
    (entry = "__main__" /\ pc \in AfterRunSample) => ~clientOpen

\* C7: run_sample calls the client in the order of its steps; once a step
\* has failed no further call is made; and 'run_sample done' is printed
\* exactly once before run_sample is left.
C7_FixedOrderNoRetryDoneOnce ==
    /\ [](entry = "__main__" =>
            /\ IsPrefix(calls, StepOrder)
            /\ doneCount <= 1
            /\ pc \in AfterRunSample => doneCount = 1)
    /\ [][(entry = "__main__" /\ (exc # NoExc \/ caught # <<>>))
             => calls' = calls]_vars

C7_Witness ==
    /\ entry = "__main__"
    /\ pc = "exited"
    /\ doneCount = 1
    /\ calls = <<"CreateDatabase", "CreateCollection", "ReadDocument">>
    /\ caught = <<[at |-> "run_sample", type |-> "HTTPFailure"]>>

\* C8: every run of the script ends in a normal exit: whatever a step
\* raises is caught in run_sample or at the outermost scope, and nothing
\* leaves the process.
C8_AlwaysExitsNormally ==
    /\ (entry = "__main__") ~> (pc = "exited" /\ exc = NoExc)
    /\ [](pc # "crashed")

C8_Witness ==
    /\ entry = "__main__"
    /\ pc = "exited"
    /\ querylist = <<>>
    /\ caught = <<[at |-> "__main__", type |-> "IndexError"]>>

\* C9: ReadDocuments, asking for pages of 10, visits every record of the
\* collection exactly once and leaves the store as it was.
C9_ReadDocumentsVisitsAllOnce ==
    (entry = "ReadDocuments" /\ pc = "returned") =>
        /\ Len(printed) = Len(docs0)
        /\ \A i \in 1..Len(docs0) :
              Cardinality({j \in 1..Len(printed) : printed[j] = docs0[i].id}) = 1
        /\ \A k \in 1..Len(pages) : Len(pages[k]) <= MaxItemCount
        /\ docs = docs0

C9_Witness ==
    /\ entry = "ReadDocuments"
    /\ pc = "returned"
    /\ Len(docs0) = 25
    /\ Len(pages) = 3
    /\ Len(printed) = 25

\* C10: throughout a run of run_sample the collection holds the documents
\* it held before; at most one of them differs from what it was, the one
\* QueryDocuments returned, and it differs in its shipped_date only.
C10_RunFrame ==
    (entry = "__main__") =>
        /\ Len(docs) = Len(docs0)
        /\ IdSet(docs) = IdSet(docs0)
        /\ Cardinality(Changed) <= 1
        /\ \A i \in Changed :
              /\ querylist # <<>>
              /\ docs[i].id = querylist[1].id
              /\ docs[i].id = docs0[i].id
              /\ docs[i] = [docs0[i] EXCEPT !.shipped_date = docs[i].shipped_date]

C10_Witness ==
    /\ entry = "__main__"
    /\ pc = "exited"
    /\ Changed # {}
    /\ Len(docs) = 2

====
